---- MODULE Spec2Model ----
(***************************************************************************)
(* A model of the chess rules engine of src/src/types/chess.ts (the        *)
(* chessLogic part that starts at line 64) as a state machine whose one    *)
(* operation is makeMove; a second specification, AlgebraicSpec, is about  *)
(* the two conversions between a Position and its algebraic form, a third, *)
(* RetainSpec, about a caller that repeats a call on a state it kept, and  *)
(* a fourth, UISpec, is the ChessGame component of                         *)
(* src/src/components/ChessGame.tsx: its clicks, buttons and the responses *)
(* of the backend.                                                         *)
(*                                                                         *)
(* Values.  A ChessPiece is a record [type, color]; a null cell is NoPiece.*)
(* A Position is a record [row, col]; a null Position is NoPosition.       *)
(* Arrays that the code only reads or copies are sequences (Position[])    *)
(* or functions (the board).  The two capturedPieces arrays are pushed to  *)
(* in place by makeMove, so they live in a heap and a GameState holds      *)
(* references to them.                                                     *)
(***************************************************************************)
EXTENDS Integers, Sequences, FiniteSets, TLC

\* ------------------------------------------------------------------ values

NoPiece == [type |-> "none", color |-> "none"]

NoPosition == [row |-> -1, col |-> -1]

NullState == [null |-> TRUE]

Piece(type, color) == [type |-> type, color |-> color]

Pos(row, col) == [row |-> row, col |-> col]

Rows == 0 .. 7

Cols == 0 .. 7

Squares == {Pos(row, col) : row \in Rows, col \in Cols}

Opponent(color) == IF color = "white" THEN "black" ELSE "white"

Abs(x) == IF x < 0 THEN -x ELSE x

\* ------------------------------------------------------- initial position

pieceOrder == <<"rook", "knight", "bishop", "queen", "king", "bishop", "knight", "rook">>

createInitialBoard ==
  [row \in Rows |-> [col \in Cols |->
     CASE row = 0 -> Piece(pieceOrder[col + 1], "black")
       [] row = 1 -> Piece("pawn", "black")
       [] row = 6 -> Piece("pawn", "white")
       [] row = 7 -> Piece(pieceOrder[col + 1], "white")
       [] OTHER -> NoPiece]]

\* createInitialGameState allocates two fresh arrays for capturedPieces;
\* whiteRef and blackRef are their places in the heap.
createInitialGameState(whiteRef, blackRef) ==
  [board |-> createInitialBoard,
   currentPlayer |-> "white",
   status |-> "active",
   moveHistory |-> <<>>,
   capturedPieces |-> [white |-> whiteRef, black |-> blackRef],
   castlingRights |-> [whiteKingSide |-> TRUE, whiteQueenSide |-> TRUE,
                       blackKingSide |-> TRUE, blackQueenSide |-> TRUE],
   enPassantTarget |-> NoPosition,
   halfMoveClock |-> 0,
   fullMoveNumber |-> 1]

isValidPosition(pos) == pos.row >= 0 /\ pos.row < 8 /\ pos.col >= 0 /\ pos.col < 8

positionsEqual(pos1, pos2) == pos1.row = pos2.row /\ pos1.col = pos2.col

\* possibleMoves.some(move => positionsEqual(move, square))
someEqual(moves, square) == \E i \in 1 .. Len(moves) : positionsEqual(moves[i], square)

\* The squares strictly between from and to, which lie on one line (the
\* loop is only defined for such inputs), are all empty.
isPathClear(board, from, to) ==
  LET rowDiff == to.row - from.row
      colDiff == to.col - from.col
      rowStep == IF rowDiff = 0 THEN 0 ELSE rowDiff \div Abs(rowDiff)
      colStep == IF colDiff = 0 THEN 0 ELSE colDiff \div Abs(colDiff)
      steps == IF Abs(rowDiff) > Abs(colDiff) THEN Abs(rowDiff) ELSE Abs(colDiff)
  IN \A k \in 1 .. steps - 1 :
       board[from.row + k * rowStep][from.col + k * colStep] = NoPiece

\* --------------------------------------------------------- move generator

\* getPawnMoves without the advance of two squares from the start row.
getPawnMovesOneForward(board, from, color, enPassantTarget) ==
  LET direction == IF color = "white" THEN -1 ELSE 1
      oneForward == Pos(from.row + direction, from.col)
      captures == {Pos(from.row + direction, from.col - 1),
                   Pos(from.row + direction, from.col + 1)}
  IN (IF isValidPosition(oneForward) /\ board[oneForward.row][oneForward.col] = NoPiece
      THEN <<oneForward>> ELSE <<>>)
     \o SelectSeq(<<Pos(from.row + direction, from.col - 1),
                    Pos(from.row + direction, from.col + 1)>>,
                  LAMBDA to : isValidPosition(to)
                              /\ board[to.row][to.col] # NoPiece
                              /\ board[to.row][to.col].color # color)
     \o (IF enPassantTarget \in captures THEN <<enPassantTarget>> ELSE <<>>)

getPawnMoves(board, from, color, enPassantTarget) ==
  LET direction == IF color = "white" THEN -1 ELSE 1
      startRow == IF color = "white" THEN 6 ELSE 1
      oneForward == Pos(from.row + direction, from.col)
      twoForward == Pos(from.row + 2 * direction, from.col)
      captureLeft == Pos(from.row + direction, from.col - 1)
      captureRight == Pos(from.row + direction, from.col + 1)
      forward ==
        IF isValidPosition(oneForward) /\ board[oneForward.row][oneForward.col] = NoPiece
        THEN <<oneForward>> \o
             (IF from.row = startRow /\ isValidPosition(twoForward)
                 /\ board[twoForward.row][twoForward.col] = NoPiece
              THEN <<twoForward>> ELSE <<>>)
        ELSE <<>>
      left ==
        IF isValidPosition(captureLeft)
           /\ board[captureLeft.row][captureLeft.col] # NoPiece
           /\ board[captureLeft.row][captureLeft.col].color # color
        THEN <<captureLeft>> ELSE <<>>
      right ==
        IF isValidPosition(captureRight)
           /\ board[captureRight.row][captureRight.col] # NoPiece
           /\ board[captureRight.row][captureRight.col].color # color
        THEN <<captureRight>> ELSE <<>>
      enPassant ==
        IF enPassantTarget # NoPosition
           /\ (positionsEqual(captureLeft, enPassantTarget)
               \/ positionsEqual(captureRight, enPassantTarget))
        THEN <<enPassantTarget>> ELSE <<>>
  IN forward \o left \o right \o enPassant

\* The inner loop of getRookMoves and getBishopMoves: the squares from the
\* i-th on in direction (rowDir, colDir), up to the first blocker.
RECURSIVE slide(_, _, _, _, _, _)
slide(board, from, color, rowDir, colDir, i) ==
  LET to == Pos(from.row + i * rowDir, from.col + i * colDir)
  IN IF i >= 8 \/ ~isValidPosition(to) THEN <<>>
     ELSE IF board[to.row][to.col] = NoPiece
          THEN <<to>> \o slide(board, from, color, rowDir, colDir, i + 1)
          ELSE IF board[to.row][to.col].color # color THEN <<to>> ELSE <<>>

getRookMoves(board, from, color) ==
  slide(board, from, color, -1, 0, 1) \o slide(board, from, color, 1, 0, 1)
  \o slide(board, from, color, 0, -1, 1) \o slide(board, from, color, 0, 1, 1)

knightMoves ==
  << <<-2, -1>>, <<-2, 1>>, <<-1, -2>>, <<-1, 2>>,
     <<1, -2>>, <<1, 2>>, <<2, -1>>, <<2, 1>> >>

\* stepMoves without the test of what stands on the square.
stepMovesOntoAnything(board, from, color, offsets) ==
  SelectSeq([k \in 1 .. Len(offsets) |->
               Pos(from.row + offsets[k][1], from.col + offsets[k][2])],
            LAMBDA to : isValidPosition(to))

\* The loop shared by getKnightMoves and the regular moves of getKingMoves:
\* each offset's square, kept when it is on the board and empty or enemy.
stepMoves(board, from, color, offsets) ==
  SelectSeq([k \in 1 .. Len(offsets) |->
               Pos(from.row + offsets[k][1], from.col + offsets[k][2])],
            LAMBDA to : isValidPosition(to)
                        /\ (board[to.row][to.col] = NoPiece
                            \/ board[to.row][to.col].color # color))

getKnightMoves(board, from, color) == stepMoves(board, from, color, knightMoves)

getBishopMoves(board, from, color) ==
  slide(board, from, color, -1, -1, 1) \o slide(board, from, color, -1, 1, 1)
  \o slide(board, from, color, 1, -1, 1) \o slide(board, from, color, 1, 1, 1)

getQueenMoves(board, from, color) ==
  getRookMoves(board, from, color) \o getBishopMoves(board, from, color)

kingDirections ==
  << <<-1, -1>>, <<-1, 0>>, <<-1, 1>>, <<0, -1>>,
     <<0, 1>>, <<1, -1>>, <<1, 0>>, <<1, 1>> >>

noCastlingRights ==
  [whiteKingSide |-> FALSE, whiteQueenSide |-> FALSE,
   blackKingSide |-> FALSE, blackQueenSide |-> FALSE]

RECURSIVE isSquareAttacked(_, _, _)

\* One castling candidate of getKingMoves: the right, the empty squares
\* between king and rook, and the three squares the king stands on.
castlingMove(board, right, empties, row, crossCol, toCol, byColor) ==
  IF right
     /\ (\A col \in empties : board[row][col] = NoPiece)
     /\ ~isSquareAttacked(board, Pos(row, 4), byColor)
     /\ ~isSquareAttacked(board, Pos(row, crossCol), byColor)
     /\ ~isSquareAttacked(board, Pos(row, toCol), byColor)
  THEN <<Pos(row, toCol)>> ELSE <<>>

getKingMoves(board, from, color, castlingRights) ==
  stepMoves(board, from, color, kingDirections)
  \o (IF color = "white" /\ from.row = 7 /\ from.col = 4
      THEN castlingMove(board, castlingRights.whiteKingSide, {5, 6}, 7, 5, 6, "black")
           \o castlingMove(board, castlingRights.whiteQueenSide, {1, 2, 3}, 7, 3, 2, "black")
      ELSE IF color = "black" /\ from.row = 0 /\ from.col = 4
      THEN castlingMove(board, castlingRights.blackKingSide, {5, 6}, 0, 5, 6, "white")
           \o castlingMove(board, castlingRights.blackQueenSide, {1, 2, 3}, 0, 3, 2, "white")
      ELSE <<>>)

getPossibleMovesWithoutCheckValidation(board, from) ==
  LET piece == board[from.row][from.col]
  IN CASE piece.type = "pawn" -> getPawnMoves(board, from, piece.color, NoPosition)
       [] piece.type = "rook" -> getRookMoves(board, from, piece.color)
       [] piece.type = "knight" -> getKnightMoves(board, from, piece.color)
       [] piece.type = "bishop" -> getBishopMoves(board, from, piece.color)
       [] piece.type = "queen" -> getQueenMoves(board, from, piece.color)
       [] piece.type = "king" ->
            SelectSeq(getKingMoves(board, from, piece.color, noCastlingRights),
                      LAMBDA move : Abs(move.col - from.col) <= 1)
       [] OTHER -> <<>>

isSquareAttacked(board, square, byColor) ==
  \E row \in Rows : \E col \in Cols :
    /\ board[row][col] # NoPiece
    /\ board[row][col].color = byColor
    /\ someEqual(getPossibleMovesWithoutCheckValidation(board, Pos(row, col)), square)

\* The first square, rows then columns, that holds the king of color.
findKing(board, color) ==
  LET kings == {pos \in Squares : board[pos.row][pos.col] = Piece("king", color)}
  IN IF kings = {} THEN NoPosition
     ELSE CHOOSE pos \in kings :
            \A other \in kings : 8 * pos.row + pos.col <= 8 * other.row + other.col

wouldBeInCheck(board, from, to, color) ==
  LET newBoard == [[board EXCEPT ![to.row][to.col] = board[from.row][from.col]]
                      EXCEPT ![from.row][from.col] = NoPiece]
      kingPos == findKing(newBoard, color)
  IN IF kingPos = NoPosition THEN TRUE
     ELSE isSquareAttacked(newBoard, kingPos, Opponent(color))

isInCheck(board, color) ==
  LET kingPos == findKing(board, color)
  IN IF kingPos = NoPosition THEN FALSE
     ELSE isSquareAttacked(board, kingPos, Opponent(color))

\* The switch of getPossibleMoves: the moves of the piece's kind, before the
\* filter that drops the moves that would leave the king in check.
unfilteredMoves(board, from, gameState) ==
  LET piece == board[from.row][from.col]
  IN CASE piece.type = "pawn" ->
            getPawnMoves(board, from, piece.color, gameState.enPassantTarget)
       [] piece.type = "rook" -> getRookMoves(board, from, piece.color)
       [] piece.type = "knight" -> getKnightMoves(board, from, piece.color)
       [] piece.type = "bishop" -> getBishopMoves(board, from, piece.color)
       [] piece.type = "queen" -> getQueenMoves(board, from, piece.color)
       [] piece.type = "king" ->
            getKingMoves(board, from, piece.color, gameState.castlingRights)
       [] OTHER -> <<>>

getPossibleMoves(board, from, gameState) ==
  LET piece == board[from.row][from.col]
  IN IF piece = NoPiece THEN <<>>
     ELSE SelectSeq(unfilteredMoves(board, from, gameState),
                    LAMBDA to : ~wouldBeInCheck(board, from, to, piece.color))

\* ------------------------------------------------------------------ status

\* The Move objects getAllPossibleMoves builds for the pieces of color on the
\* squares from the k-th on (rows, then columns); timestamps are left out.
RECURSIVE allMovesFrom(_, _, _, _)
allMovesFrom(board, color, gameState, k) ==
  IF k >= 64 THEN <<>>
  ELSE LET from == Pos(k \div 8, k % 8)
           piece == board[from.row][from.col]
           possibleMoves == getPossibleMoves(board, from, gameState)
       IN (IF piece # NoPiece /\ piece.color = color
           THEN [i \in 1 .. Len(possibleMoves) |->
                   [from |-> from, to |-> possibleMoves[i], piece |-> piece,
                    capturedPiece |-> board[possibleMoves[i].row][possibleMoves[i].col],
                    notation |-> ""]]
           ELSE <<>>)
          \o allMovesFrom(board, color, gameState, k + 1)

getAllPossibleMoves(board, color, gameState) == allMovesFrom(board, color, gameState, 0)

\* board.flat().filter(p => p !== null)
piecesOnBoard(board) == {pos \in Squares : board[pos.row][pos.col] # NoPiece}

\* getGameStatus that tests for check before it counts the legal moves.
getGameStatusCheckFirst(gameState) ==
  LET board == gameState.board
      currentPlayer == gameState.currentPlayer
      inCheck == isInCheck(board, currentPlayer)
      possibleMoves == getAllPossibleMoves(board, currentPlayer, gameState)
  IN IF inCheck THEN "check"
     ELSE IF Len(possibleMoves) = 0 THEN "stalemate"
     ELSE IF gameState.halfMoveClock >= 50 THEN "draw"
     ELSE IF Cardinality(piecesOnBoard(board)) <= 3
             /\ \A pos \in piecesOnBoard(board) :
                  board[pos.row][pos.col].type \in {"king", "knight", "bishop"}
          THEN "draw"
     ELSE "active"

\* getGameStatus that tests the half-move clock before it tests for check.
getGameStatusClockFirst(gameState) ==
  LET board == gameState.board
      currentPlayer == gameState.currentPlayer
      inCheck == isInCheck(board, currentPlayer)
      possibleMoves == getAllPossibleMoves(board, currentPlayer, gameState)
  IN IF Len(possibleMoves) = 0 THEN (IF inCheck THEN "checkmate" ELSE "stalemate")
     ELSE IF gameState.halfMoveClock >= 50 THEN "draw"
     ELSE IF inCheck THEN "check"
     ELSE IF Cardinality(piecesOnBoard(board)) <= 3
             /\ \A pos \in piecesOnBoard(board) :
                  board[pos.row][pos.col].type \in {"king", "knight", "bishop"}
          THEN "draw"
     ELSE "active"

getGameStatus(gameState) ==
  LET board == gameState.board
      currentPlayer == gameState.currentPlayer
      inCheck == isInCheck(board, currentPlayer)
      possibleMoves == getAllPossibleMoves(board, currentPlayer, gameState)
  IN IF Len(possibleMoves) = 0 THEN (IF inCheck THEN "checkmate" ELSE "stalemate")
     ELSE IF inCheck THEN "check"
     ELSE IF gameState.halfMoveClock >= 50 THEN "draw"
     ELSE IF Cardinality(piecesOnBoard(board)) <= 3
             /\ \A pos \in piecesOnBoard(board) :
                  board[pos.row][pos.col].type \in {"king", "knight", "bishop"}
          THEN "draw"
     ELSE "active"

\* ---------------------------------------------------------------- notation

files == <<"a", "b", "c", "d", "e", "f", "g", "h">>

ranks == <<"8", "7", "6", "5", "4", "3", "2", "1">>

\* piece.type.charAt(0).toUpperCase()
firstCharUpper(type) ==
  CASE type = "pawn" -> "P" [] type = "rook" -> "R" [] type = "knight" -> "K"
    [] type = "bishop" -> "B" [] type = "queen" -> "Q" [] type = "king" -> "K"

createMoveNotation(piece, from, to, isCapture, isCastling, isEnPassant) ==
  IF isCastling THEN (IF to.col > from.col THEN "O-O" ELSE "O-O-O")
  ELSE (IF piece.type # "pawn" THEN firstCharUpper(piece.type) ELSE "")
       \o (IF isCapture
           THEN (IF piece.type = "pawn" THEN files[from.col + 1] ELSE "") \o "x"
           ELSE "")
       \o files[to.col + 1] \o ranks[to.row + 1]
       \o (IF isEnPassant THEN " e.p." ELSE "")

\* string.indexOf(char), on a string given as the sequence of its characters.
indexOf(string, char) ==
  IF \E i \in 1 .. Len(string) : string[i] = char
  THEN (CHOOSE i \in 1 .. Len(string) :
          string[i] = char /\ \A j \in 1 .. i - 1 : string[j] # char) - 1
  ELSE -1

\* algebraicToPosition that reads the rank digit as a row number from 0.
algebraicToPositionRankUp(algebraic) ==
  [col |-> indexOf(files, algebraic[1]), row |-> 7 - indexOf(ranks, algebraic[2])]

\* An algebraic square is the sequence of its two characters.
positionToAlgebraic(pos) == <<files[pos.col + 1], ranks[pos.row + 1]>>

algebraicToPosition(algebraic) ==
  [col |-> indexOf(files, algebraic[1]), row |-> indexOf(ranks, algebraic[2])]

\* ---------------------------------------------------------------- makeMove

\* isRejected without the test of the piece's colour.
isRejectedAnyColor(gameState, from, to) ==
  LET piece == gameState.board[from.row][from.col]
  IN \/ piece = NoPiece
     \/ ~someEqual(getPossibleMoves(gameState.board, from, gameState), to)

\* isRejected that also turns down every call once the status is not active.
isRejectedUnlessActive(gameState, from, to) ==
  LET piece == gameState.board[from.row][from.col]
  IN \/ piece = NoPiece
     \/ piece.color # gameState.currentPlayer
     \/ gameState.status # "active"
     \/ ~someEqual(getPossibleMoves(gameState.board, from, gameState), to)

\* The two early returns of makeMove: no piece of the side to move on from,
\* or to is not among getPossibleMoves.
isRejected(gameState, from, to) ==
  LET piece == gameState.board[from.row][from.col]
  IN \/ piece = NoPiece
     \/ piece.color # gameState.currentPlayer
     \/ ~someEqual(getPossibleMoves(gameState.board, from, gameState), to)

isEnPassantMove(gameState, from, to) ==
  /\ gameState.board[from.row][from.col].type = "pawn"
  /\ gameState.enPassantTarget # NoPosition
  /\ positionsEqual(to, gameState.enPassantTarget)

isCastlingMove(gameState, from, to) ==
  /\ gameState.board[from.row][from.col].type = "king"
  /\ Abs(to.col - from.col) = 2

\* newBoard once makeMove has applied en passant, castling and the move
\* itself.
relocatedBoard(gameState, from, to) ==
  LET board == gameState.board
      piece == board[from.row][from.col]
      captureRow == IF gameState.currentPlayer = "white" THEN to.row + 1 ELSE to.row - 1
      b1 == IF isEnPassantMove(gameState, from, to)
            THEN [board EXCEPT ![captureRow][to.col] = NoPiece]
            ELSE board
      isKingSide == to.col > from.col
      rookFromCol == IF isKingSide THEN 7 ELSE 0
      rookToCol == IF isKingSide THEN 5 ELSE 3
      rookRow == from.row
      b2 == IF isCastlingMove(gameState, from, to)
            THEN [[b1 EXCEPT ![rookRow][rookToCol] = b1[rookRow][rookFromCol]]
                     EXCEPT ![rookRow][rookFromCol] = NoPiece]
            ELSE b1
  IN [[b2 EXCEPT ![to.row][to.col] = piece] EXCEPT ![from.row][from.col] = NoPiece]

\* movedBoard that promotes the pawns of white only.
movedBoardWhiteOnly(gameState, from, to) ==
  LET piece == gameState.board[from.row][from.col]
      newBoard == relocatedBoard(gameState, from, to)
  IN IF piece.type = "pawn" /\ to.row = 0
     THEN [newBoard EXCEPT ![to.row][to.col] = Piece("queen", piece.color)]
     ELSE newBoard

\* newBoard as makeMove returns it: relocatedBoard, and a queen in place of
\* a pawn that has reached row 0 or row 7.
movedBoard(gameState, from, to) ==
  LET piece == gameState.board[from.row][from.col]
      newBoard == relocatedBoard(gameState, from, to)
  IN IF piece.type = "pawn" /\ (to.row = 0 \/ to.row = 7)
     THEN [newBoard EXCEPT ![to.row][to.col] = Piece("queen", piece.color)]
     ELSE newBoard

\* pushCaptured without the push of the pawn captured en passant.
pushCapturedOnTarget(heap, gameState, from, to) ==
  LET capturedPiece == gameState.board[to.row][to.col]
  IN IF capturedPiece # NoPiece
     THEN [heap EXCEPT ![gameState.capturedPieces[capturedPiece.color]] =
             Append(@, capturedPiece)]
     ELSE heap

\* The arrays after makeMove's pushes. newCapturedPieces is a shallow copy
\* of gameState.capturedPieces, so it names the arrays the input state names.
pushCaptured(heap, gameState, from, to) ==
  LET capturedPiece == gameState.board[to.row][to.col]
      refs == gameState.capturedPieces
      h1 == IF capturedPiece # NoPiece
            THEN [heap EXCEPT ![refs[capturedPiece.color]] = Append(@, capturedPiece)]
            ELSE heap
      capturedPawn == Piece("pawn", Opponent(gameState.currentPlayer))
  IN IF isEnPassantMove(gameState, from, to)
     THEN [h1 EXCEPT ![refs[capturedPawn.color]] = Append(@, capturedPawn)]
     ELSE h1

\* newCastlingRights that starts from all four rights set instead of from a
\* copy of the input state's rights.
newCastlingRightsFresh(gameState, from) ==
  LET piece == gameState.board[from.row][from.col]
      white == gameState.currentPlayer = "white"
  IN [whiteKingSide |-> ~(white /\ (piece.type = "king" \/ (piece.type = "rook" /\ from.col = 7))),
      whiteQueenSide |-> ~(white /\ (piece.type = "king" \/ (piece.type = "rook" /\ from.col = 0))),
      blackKingSide |-> ~(~white /\ (piece.type = "king" \/ (piece.type = "rook" /\ from.col = 7))),
      blackQueenSide |-> ~(~white /\ (piece.type = "king" \/ (piece.type = "rook" /\ from.col = 0)))]

newCastlingRights(gameState, from) ==
  LET piece == gameState.board[from.row][from.col]
      currentPlayer == gameState.currentPlayer
      rights == gameState.castlingRights
      r1 == IF piece.type = "king"
            THEN (IF currentPlayer = "white"
                  THEN [rights EXCEPT !.whiteKingSide = FALSE, !.whiteQueenSide = FALSE]
                  ELSE [rights EXCEPT !.blackKingSide = FALSE, !.blackQueenSide = FALSE])
            ELSE rights
  IN IF piece.type = "rook"
     THEN (IF currentPlayer = "white"
           THEN [r1 EXCEPT !.whiteQueenSide = IF from.col = 0 THEN FALSE ELSE @,
                           !.whiteKingSide = IF from.col = 7 THEN FALSE ELSE @]
           ELSE [r1 EXCEPT !.blackQueenSide = IF from.col = 0 THEN FALSE ELSE @,
                           !.blackKingSide = IF from.col = 7 THEN FALSE ELSE @])
     ELSE r1

\* newEnPassantTarget that keeps the old target when the move sets none.
newEnPassantTargetKept(gameState, from, to) ==
  IF gameState.board[from.row][from.col].type = "pawn" /\ Abs(to.row - from.row) = 2
  THEN Pos((from.row + to.row) \div 2, from.col)
  ELSE gameState.enPassantTarget

newEnPassantTarget(gameState, from, to) ==
  IF gameState.board[from.row][from.col].type = "pawn" /\ Abs(to.row - from.row) = 2
  THEN Pos((from.row + to.row) \div 2, from.col)
  ELSE NoPosition

\* newHalfMoveClock that is reset by the moves of pawns only.
newHalfMoveClockPawnOnly(gameState, from, to) ==
  IF gameState.board[from.row][from.col].type = "pawn"
  THEN 0 ELSE gameState.halfMoveClock + 1

\* halfMoveClock of newGameState; capturedPiece is what stood on to.
newHalfMoveClock(gameState, from, to) ==
  LET piece == gameState.board[from.row][from.col]
      capturedPiece == gameState.board[to.row][to.col]
  IN IF capturedPiece # NoPiece \/ piece.type = "pawn"
     THEN 0 ELSE gameState.halfMoveClock + 1

\* newFullMoveNumber that counts the moves of white.
newFullMoveNumberAfterWhite(gameState) ==
  IF gameState.currentPlayer = "white"
  THEN gameState.fullMoveNumber + 1 ELSE gameState.fullMoveNumber

\* fullMoveNumber of newGameState.
newFullMoveNumber(gameState) ==
  IF gameState.currentPlayer = "black"
  THEN gameState.fullMoveNumber + 1 ELSE gameState.fullMoveNumber

\* The state makeMove returns, or NullState. The Move object it appends has
\* the fields of the object literal (timestamp left out): isCheck, isCheckmate
\* and promotionPiece are not among them. Its capturedPieces are the
\* references of the input state; pushCaptured gives the arrays' contents.
makeMove(gameState, from, to) ==
  IF isRejected(gameState, from, to) THEN NullState
  ELSE
    LET piece == gameState.board[from.row][from.col]
        currentPlayer == gameState.currentPlayer
        capturedPiece == gameState.board[to.row][to.col]
        isEnPassant == isEnPassantMove(gameState, from, to)
        isCastling == isCastlingMove(gameState, from, to)
        move == [from |-> from, to |-> to, piece |-> piece,
                 capturedPiece |-> capturedPiece,
                 notation |-> createMoveNotation(piece, from, to, capturedPiece # NoPiece,
                                                 isCastling, isEnPassant),
                 isCastling |-> isCastling, isEnPassant |-> isEnPassant]
        newGameState ==
          [board |-> movedBoard(gameState, from, to),
           currentPlayer |-> Opponent(currentPlayer),
           status |-> "active",
           moveHistory |-> Append(gameState.moveHistory, move),
           capturedPieces |-> gameState.capturedPieces,
           castlingRights |-> newCastlingRights(gameState, from),
           enPassantTarget |-> newEnPassantTarget(gameState, from, to),
           halfMoveClock |-> newHalfMoveClock(gameState, from, to),
           fullMoveNumber |-> newFullMoveNumber(gameState)]
    IN [newGameState EXCEPT !.status = getGameStatus(newGameState)]

\* ----------------------------------------------------------- the callers

\* The Position of a square named as in chess: file letter, rank number.
Square(file, rank) == Pos(8 - rank, (CHOOSE i \in 1 .. 8 : files[i] = file) - 1)

Call(fromFile, fromRank, toFile, toRank) ==
  [from |-> Square(fromFile, fromRank), to |-> Square(toFile, toRank)]

\* Games a caller plays from the initial position. Each is a sequence of
\* makeMove calls; after the last of them the caller goes on with any calls.

\* A pawn captures en passant while its king stands on the same rank.
EnPassantPinGame ==
  << Call("e", 2, "e", 4), Call("c", 7, "c", 6), Call("e", 4, "e", 5), Call("d", 8, "a", 5),
     Call("e", 1, "e", 2), Call("a", 7, "a", 6), Call("e", 2, "f", 3), Call("b", 7, "b", 6),
     Call("f", 3, "g", 4), Call("h", 7, "h", 6), Call("g", 4, "h", 5), Call("f", 7, "f", 5),
     Call("e", 5, "f", 6) >>

\* A double push gives check to a king whose pawn stands beside the pusher.
EnPassantCheckGame ==
  << Call("e", 2, "e", 4), Call("a", 7, "a", 6), Call("e", 4, "e", 5), Call("b", 7, "b", 6),
     Call("e", 1, "e", 2), Call("h", 7, "h", 6), Call("e", 2, "e", 3), Call("a", 6, "a", 5),
     Call("e", 3, "e", 4), Call("d", 7, "d", 5) >>

\* Plain en passant, for white and for black.
EnPassantWhiteGame ==
  << Call("e", 2, "e", 4), Call("a", 7, "a", 6), Call("e", 4, "e", 5), Call("d", 7, "d", 5) >>

EnPassantBlackGame ==
  << Call("a", 2, "a", 3), Call("d", 7, "d", 5), Call("a", 3, "a", 4), Call("d", 5, "d", 4),
     Call("e", 2, "e", 4) >>

\* White is ready to castle king-side.
CastlingGame ==
  << Call("g", 1, "f", 3), Call("d", 7, "d", 5), Call("g", 2, "g", 3), Call("d", 5, "d", 4),
     Call("f", 1, "g", 2), Call("d", 4, "d", 3) >>

\* ... and a black pawn arrives on e2, diagonally in front of f1.
CastlingPawnGame ==
  CastlingGame \o << Call("a", 2, "a", 3), Call("d", 3, "e", 2) >>

\* The rook on h1 is captured on its home square by a bishop.
CastlingNoRookGame ==
  << Call("g", 2, "g", 3), Call("b", 7, "b", 6), Call("g", 1, "h", 3), Call("c", 8, "b", 7),
     Call("f", 1, "g", 2), Call("b", 7, "g", 2), Call("a", 2, "a", 3), Call("g", 2, "h", 1) >>

\* Rooks cross the board and move on from the far edge file.
RookGame ==
  << Call("h", 2, "h", 4), Call("a", 7, "a", 5), Call("h", 1, "h", 3), Call("a", 8, "a", 6),
     Call("h", 3, "a", 3), Call("a", 6, "h", 6), Call("a", 3, "b", 3) >>

\* A white pawn stands on a7 with a knight to capture on b8, and a black pawn
\* on g2 with g1 empty and a rook on h1.
PromotionWhiteGame ==
  << Call("a", 2, "a", 4), Call("b", 7, "b", 5), Call("a", 4, "b", 5), Call("a", 7, "a", 6),
     Call("b", 5, "a", 6), Call("c", 8, "b", 7), Call("a", 6, "a", 7), Call("b", 7, "c", 6) >>

PromotionBlackGame ==
  << Call("g", 2, "g", 4), Call("h", 7, "h", 5), Call("h", 2, "h", 3), Call("h", 5, "g", 4),
     Call("f", 1, "g", 2), Call("g", 4, "h", 3), Call("g", 1, "f", 3), Call("h", 3, "g", 2),
     Call("a", 2, "a", 3) >>

\* Knights go out and back: n calls that move no pawn and capture nothing.
KnightShuffle(n) ==
  [i \in 1 .. n |->
     CASE i % 4 = 1 -> Call("b", 1, "c", 3)
       [] i % 4 = 2 -> Call("b", 8, "c", 6)
       [] i % 4 = 3 -> Call("c", 3, "b", 1)
       [] OTHER -> Call("c", 6, "b", 8)]

\* Fifty calls without a pawn move or a capture, with the diagonal from h5
\* to the black king open.
FiftyMoveGame ==
  << Call("e", 2, "e", 4), Call("f", 7, "f", 6) >> \o KnightShuffle(50)

\* Fool's mate.
FoolsMateGame ==
  << Call("f", 2, "f", 3), Call("e", 7, "e", 5), Call("g", 2, "g", 4), Call("d", 8, "h", 4) >>

\* A stalemate with all of black's pieces but four on the board.
StalemateGame ==
  << Call("e", 2, "e", 3), Call("a", 7, "a", 5), Call("d", 1, "h", 5), Call("a", 8, "a", 6),
     Call("h", 5, "a", 5), Call("h", 7, "h", 5), Call("h", 2, "h", 4), Call("a", 6, "h", 6),
     Call("a", 5, "c", 7), Call("f", 7, "f", 6), Call("c", 7, "d", 7), Call("e", 8, "f", 7),
     Call("d", 7, "b", 7), Call("d", 8, "d", 3), Call("b", 7, "b", 8), Call("d", 3, "h", 7),
     Call("b", 8, "c", 8), Call("f", 7, "g", 6), Call("c", 8, "e", 6) >>

\* Twenty-nine captures: two kings and a black knight are left.
LoneKnightGame ==
  << Call("f", 2, "f", 4), Call("b", 7, "b", 6), Call("b", 2, "b", 4), Call("f", 7, "f", 5),
     Call("g", 2, "g", 4), Call("f", 5, "g", 4), Call("f", 1, "g", 2), Call("c", 7, "c", 5),
     Call("g", 2, "a", 8), Call("c", 5, "b", 4), Call("e", 2, "e", 4), Call("a", 7, "a", 5),
     Call("d", 1, "g", 4), Call("d", 8, "c", 7), Call("g", 4, "g", 7), Call("c", 7, "f", 4),
     Call("g", 7, "e", 7), Call("g", 8, "e", 7), Call("b", 1, "c", 3), Call("f", 4, "h", 2),
     Call("h", 1, "h", 2), Call("b", 4, "c", 3), Call("d", 2, "c", 3), Call("e", 7, "g", 6),
     Call("h", 2, "h", 7), Call("h", 8, "h", 7), Call("g", 1, "h", 3), Call("h", 7, "h", 3),
     Call("c", 1, "d", 2), Call("h", 3, "c", 3), Call("a", 8, "b", 7), Call("c", 3, "c", 2),
     Call("b", 7, "c", 8), Call("c", 2, "a", 2), Call("d", 2, "a", 5), Call("b", 6, "a", 5),
     Call("c", 8, "d", 7), Call("b", 8, "d", 7), Call("a", 1, "a", 2), Call("e", 8, "d", 8),
     Call("a", 2, "a", 5), Call("f", 8, "e", 7), Call("a", 5, "a", 1), Call("d", 7, "f", 6),
     Call("a", 1, "a", 2), Call("f", 6, "e", 4), Call("a", 2, "a", 6), Call("e", 7, "c", 5),
     Call("a", 6, "g", 6), Call("c", 5, "d", 6), Call("g", 6, "d", 6), Call("e", 4, "d", 6) >>

\* A knight and then the king of white move to e2.
KnightKingGame ==
  << Call("e", 2, "e", 4), Call("a", 7, "a", 6), Call("g", 1, "e", 2), Call("a", 6, "a", 5),
     Call("e", 2, "g", 1), Call("a", 5, "a", 4), Call("e", 1, "e", 2) >>

Games ==
  { <<>>, EnPassantPinGame, EnPassantCheckGame, EnPassantWhiteGame, EnPassantBlackGame,
    CastlingGame, CastlingPawnGame, CastlingNoRookGame, RookGame,
    PromotionWhiteGame, PromotionBlackGame, FiftyMoveGame, FoolsMateGame, StalemateGame,
    LoneKnightGame, KnightKingGame }

\* Calls made after the end of a game of Games.
FreeCalls == 1

IsPrefix(s, t) == Len(s) <= Len(t) /\ \A i \in 1 .. Len(s) : s[i] = t[i]

\* ------------------------------------------------------------------- state

VARIABLES
  gameState,   \* the GameState the caller holds
  heap,        \* the contents of the capturedPieces arrays, by reference
  played,      \* the (from, to) of every makeMove call so far
  input,       \* the GameState passed to the last call, as the caller kept it
  inputView,   \* what that GameState held when the call was made
  result,      \* what the last call returned: "state", "null" ("none": no call yet)
  accepted,    \* the number of calls that returned a state
  repeated,    \* what a call and the same call made again returned (NullState: none)
  position,    \* the Position a caller converts (NoPosition: none)
  algebraic,   \* positionToAlgebraic(position), once called (<<>>: not yet)
  parsed,      \* algebraicToPosition(algebraic), once called (NullState: not yet)
  selectedSquare,   \* ChessGame: the selected Position (NoPosition: null)
  validMoves,       \* ChessGame: the Position[] shown as targets
  gameId,           \* ChessGame: the id of the game on the backend (NoGameId: null)
  isOnline,         \* ChessGame: the backend is taken to be reachable
  connectionError,  \* ChessGame: the message shown ("null": none)
  closure,     \* the isOnline and gameId that the memoized handleSquareClick reads
  requests,    \* the POSTs awaiting their response
  event,       \* the handler that ran last and the branch it took
  offScript,   \* the number of clicks made that the game being played did not ask for
  newGames     \* the number of games started after the first

engineVars == <<gameState, heap, played, input, inputView, result, accepted>>

algebraicVars == <<position, algebraic, parsed>>

uiVars ==
  <<selectedSquare, validMoves, gameId, isOnline, connectionError, closure, requests,
    event, offScript, newGames>>

vars == <<engineVars, repeated, algebraicVars, uiVars>>

NoGameId == 0

\* A POST awaiting its response: the function that awaits it and the game
\* id in its URL (NoGameId for POST /games).
Post(by, id) == [by |-> by, gameId |-> id]

\* The component after its first render and its effect: the six useState
\* values, and initializeGame waiting for the response to POST /games.
mounted ==
  /\ selectedSquare = NoPosition
  /\ validMoves = <<>>
  /\ gameId = NoGameId
  /\ isOnline = FALSE
  /\ connectionError = "null"
  /\ closure = [isOnline |-> FALSE, gameId |-> NoGameId]
  /\ requests = << Post("initializeGame", NoGameId) >>
  /\ event = [handler |-> "none", branch |-> "none"]
  /\ offScript = 0
  /\ newGames = 0

\* A GameState with its capturedPieces arrays read out of the heap.
View(state, h) ==
  [state EXCEPT !.capturedPieces =
     [white |-> h[state.capturedPieces.white], black |-> h[state.capturedPieces.black]]]

Init ==
  /\ heap = << <<>>, <<>> >>
  /\ gameState = createInitialGameState(1, 2)
  /\ played = <<>>
  /\ input = NullState
  /\ inputView = NullState
  /\ result = "none"
  /\ accepted = 0
  /\ repeated = NullState
  /\ position = NoPosition
  /\ algebraic = <<>>
  /\ parsed = NullState
  /\ mounted

AllCalls == {[from |-> from, to |-> to] : from \in Squares, to \in Squares}

\* The calls the caller may make next: the next call of a game it is
\* playing, or any call once a game of Games has been played to its end. A
\* caller that has made a call twice to compare the results makes no more.
NextCalls ==
  IF repeated # NullState THEN {}
  ELSE
    {game[Len(played) + 1] :
       game \in {g \in Games : Len(g) > Len(played) /\ IsPrefix(played, g)}}
    \cup (IF \E game \in Games : IsPrefix(game, played) /\ Len(played) < Len(game) + FreeCalls
          THEN AllCalls ELSE {})

\* newGameState = makeMove(gameState, from, to): the call returns null and
\* the caller goes on with the state it holds, or it returns a state, which
\* the caller holds from then on (ChessGame.tsx, handleSquareClick).
CallMakeMove(from, to) ==
  /\ played' = Append(played, [from |-> from, to |-> to])
  /\ input' = gameState
  /\ inputView' = View(gameState, heap)
  /\ IF isRejected(gameState, from, to)
     THEN /\ result' = "null"
          /\ UNCHANGED <<gameState, heap, accepted>>
     ELSE /\ result' = "state"
          /\ gameState' = makeMove(gameState, from, to)
          /\ heap' = pushCaptured(heap, gameState, from, to)
          /\ accepted' = accepted + 1

MakeMove(from, to) ==
  /\ CallMakeMove(from, to)
  /\ UNCHANGED <<repeated, algebraicVars, uiVars>>

Next == \E call \in NextCalls : MakeMove(call.from, call.to)

Spec == Init /\ [][Next]_vars

\* A caller that keeps the state it passed to makeMove and, when the call
\* has returned a state, makes the same call on the kept state once more:
\* first is what the first call returned, as it was on return, and second
\* what the second call returns.
MakeMoveAgain ==
  /\ result = "state"
  /\ repeated = NullState
  /\ LET call == played[Len(played)]
         again == pushCaptured(heap, input, call.from, call.to)
     IN /\ heap' = again
        /\ repeated' = [first |-> View(gameState, heap),
                        second |-> View(makeMove(input, call.from, call.to), again)]
  /\ UNCHANGED <<gameState, played, input, inputView, result, accepted, algebraicVars, uiVars>>

RetainNext == Next \/ MakeMoveAgain

RetainSpec == Init /\ [][RetainNext]_vars

\* A caller of the two conversions: it takes any square of the board, has it
\* written in algebraic form and has that read back.
AlgebraicInit ==
  /\ heap = << <<>>, <<>> >>
  /\ gameState = createInitialGameState(1, 2)
  /\ played = <<>>
  /\ input = NullState
  /\ inputView = NullState
  /\ result = "none"
  /\ accepted = 0
  /\ repeated = NullState
  /\ position \in Squares
  /\ algebraic = <<>>
  /\ parsed = NullState
  /\ mounted

PositionToAlgebraic ==
  /\ algebraic = <<>>
  /\ algebraic' = positionToAlgebraic(position)
  /\ UNCHANGED <<engineVars, repeated, position, parsed, uiVars>>

AlgebraicToPosition ==
  /\ algebraic # <<>>
  /\ parsed = NullState
  /\ parsed' = algebraicToPosition(algebraic)
  /\ UNCHANGED <<engineVars, repeated, position, algebraic, uiVars>>

AlgebraicNext == PositionToAlgebraic \/ AlgebraicToPosition

AlgebraicSpec == AlgebraicInit /\ [][AlgebraicNext]_vars

\* ------------------------------------------------- the ChessGame component

\* The games played by clicking, the clicks made after the end of one of
\* them, the games started after the first, and the POSTs that can be
\* awaiting a response at a time.
UIGames == {<<>>, FoolsMateGame}

\* The games played by a user who has been told that the backend is not
\* available.
OfflineGames == {StalemateGame, LoneKnightGame}

FreeClicks == 2

MaxNewGames == 1

MaxPending == 1

\* response.data.data.id: the backend gives a game it creates an id that no
\* game before it has.
createdId == gameId + 1

\* The test that makes handleSquareClick return at once, for checkmate only.
gameOverMateOnly(state) == state.status = "checkmate"

\* If game is over, don't allow moves.
gameOver(state) ==
  state.status = "checkmate" \/ state.status = "stalemate" \/ state.status = "draw"

\* The (from, to) of the moves made in the game on the board.
movesMade ==
  [i \in 1 .. Len(gameState.moveHistory) |->
     [from |-> gameState.moveHistory[i].from, to |-> gameState.moveHistory[i].to]]

\* The clicks that the game being played asks for next: the square of the
\* piece to move, then the square it moves to.
ScriptedClicks ==
  LET n == Len(gameState.moveHistory) + 1
      playing == IF connectionError = "Playing offline - backend not available"
                 THEN UIGames \cup OfflineGames ELSE UIGames
      games == {g \in playing : Len(g) >= n /\ IsPrefix(movesMade, g)}
  IN IF selectedSquare = NoPosition
     THEN {g[n].from : g \in games}
     ELSE {g[n].to : g \in {h \in games : h[n].from = selectedSquare}}

\* The clicks made next: those of a game being played, or any click once a
\* game has been played to its end.
NextClicks ==
  ScriptedClicks
  \cup (IF /\ offScript < FreeClicks
           /\ (offScript > 0 \/ movesMade \in UIGames \cup OfflineGames)
        THEN Squares ELSE {})

\* What handleSquareClick reads after a render in which gameState or
\* selectedSquare has changed, the two dependencies of its useCallback:
\* the syncWithBackend of that render, with that render's isOnline and gameId.
memoized == [isOnline |-> isOnline, gameId |-> gameId]

\* syncWithBackend(newGameState, move) up to its await, as the handler's
\* closure sees isOnline and gameId: the POSTs awaiting a response after it.
syncWithBackend(seen, pending) ==
  IF ~seen.isOnline \/ seen.gameId = NoGameId
  THEN pending
  ELSE Append(pending, Post("syncWithBackend", seen.gameId))

\* setSelectedSquare(position); setValidMoves(getPossibleMoves(...))
select(pos) ==
  /\ selectedSquare' = pos
  /\ validMoves' = getPossibleMoves(gameState.board, pos, gameState)

\* setSelectedSquare(null); setValidMoves([])
deselect ==
  /\ selectedSquare' = NoPosition
  /\ validMoves' = <<>>

ownPiece(pos) ==
  LET piece == gameState.board[pos.row][pos.col]
  IN piece # NoPiece /\ piece.color = gameState.currentPlayer

\* handleSquareClick(pos)
Click(pos) ==
  /\ offScript' = IF pos \in ScriptedClicks THEN offScript ELSE offScript + 1
  /\ UNCHANGED <<gameId, isOnline, connectionError, newGames, repeated, algebraicVars,
                 played, input, inputView, result, accepted>>
  /\ IF gameOver(gameState)
     THEN /\ event' = [handler |-> "handleSquareClick", branch |-> "game over"]
          /\ UNCHANGED <<gameState, heap, selectedSquare, validMoves, closure, requests>>
     ELSE IF selectedSquare # NoPosition
     THEN IF positionsEqual(selectedSquare, pos)
          THEN /\ event' = [handler |-> "handleSquareClick", branch |-> "deselect"]
               /\ deselect
               /\ closure' = memoized
               /\ UNCHANGED <<gameState, heap, requests>>
          ELSE /\ closure' = memoized
               /\ IF ~isRejected(gameState, selectedSquare, pos)
                  THEN /\ event' = [handler |-> "handleSquareClick", branch |-> "move"]
                       /\ gameState' = makeMove(gameState, selectedSquare, pos)
                       /\ heap' = pushCaptured(heap, gameState, selectedSquare, pos)
                       /\ deselect
                       /\ requests' = syncWithBackend(closure, requests)
                       /\ Len(requests') <= MaxPending
                  ELSE /\ event' = [handler |-> "handleSquareClick", branch |-> "invalid move"]
                       /\ IF ownPiece(pos) THEN select(pos) ELSE deselect
                       /\ UNCHANGED <<gameState, heap, requests>>
     ELSE IF ownPiece(pos)
     THEN /\ event' = [handler |-> "handleSquareClick", branch |-> "select"]
          /\ select(pos)
          /\ closure' = memoized
          /\ UNCHANGED <<gameState, heap, requests>>
     ELSE /\ event' = [handler |-> "handleSquareClick", branch |-> "no piece"]
          /\ UNCHANGED <<gameState, heap, selectedSquare, validMoves, closure, requests>>

\* handleNewGame up to its await: a new initial state, whose two
\* capturedPieces arrays are new, no selection, and POST /games when online.
\* Nothing refers to the arrays of the state before, which leave the heap.
handleNewGame ==
  /\ newGames < MaxNewGames
  /\ newGames' = newGames + 1
  /\ gameState' = createInitialGameState(1, 2)
  /\ heap' = << <<>>, <<>> >>
  /\ deselect
  /\ closure' = memoized
  /\ requests' = IF isOnline
                 THEN Append(requests, Post("handleNewGame", NoGameId))
                 ELSE requests
  /\ Len(requests') <= MaxPending
  /\ UNCHANGED <<played, input, inputView, result, accepted, repeated, algebraicVars,
                 gameId, isOnline, connectionError, offScript>>

NewGame ==
  /\ handleNewGame
  /\ event' = [handler |-> "handleNewGame", branch |-> "new game"]

\* handleUndoMove: nothing without a move to undo, else a new game.
UndoMove ==
  /\ Len(gameState.moveHistory) # 0
  /\ handleNewGame
  /\ event' = [handler |-> "handleUndoMove", branch |-> "new game"]

\* requests without its i-th element.
answered(i) == SubSeq(requests, 1, i - 1) \o SubSeq(requests, i + 1, Len(requests))

\* A response leaves the game, the selection and the handler as they are.
Responds(i, by) ==
  /\ i \in 1 .. Len(requests)
  /\ requests[i].by = by
  /\ requests' = answered(i)
  /\ UNCHANGED <<engineVars, repeated, algebraicVars, selectedSquare, validMoves, closure,
                 offScript, newGames>>

\* initializeGame after its await: the backend has created a game, or has
\* answered without success, or the POST has failed.
InitializeGameResponds(i) ==
  /\ Responds(i, "initializeGame")
  /\ \/ /\ gameId' = createdId
        /\ isOnline' = TRUE
        /\ connectionError' = "null"
        /\ event' = [handler |-> "initializeGame", branch |-> "success"]
     \/ /\ UNCHANGED <<gameId, isOnline, connectionError>>
        /\ event' = [handler |-> "initializeGame", branch |-> "no success"]
     \/ /\ isOnline' = FALSE
        /\ connectionError' = "Playing offline - backend not available"
        /\ UNCHANGED gameId
        /\ event' = [handler |-> "initializeGame", branch |-> "catch"]

\* handleNewGame after its await: the id of the created game, or nothing.
NewGameResponds(i) ==
  /\ Responds(i, "handleNewGame")
  /\ UNCHANGED <<isOnline, connectionError>>
  /\ \/ /\ gameId' = createdId
        /\ event' = [handler |-> "handleNewGame", branch |-> "success"]
     \/ /\ UNCHANGED gameId
        /\ event' = [handler |-> "handleNewGame", branch |-> "no success"]
     \/ /\ UNCHANGED gameId
        /\ event' = [handler |-> "handleNewGame", branch |-> "catch"]

\* syncWithBackend after its await: the move is posted, or the POST has
\* failed.
SyncResponds(i) ==
  /\ Responds(i, "syncWithBackend")
  /\ UNCHANGED gameId
  /\ \/ /\ UNCHANGED <<isOnline, connectionError>>
        /\ event' = [handler |-> "syncWithBackend", branch |-> "success"]
     \/ /\ isOnline' = FALSE
        /\ connectionError' = "Lost connection to backend, continuing offline"
        /\ event' = [handler |-> "syncWithBackend", branch |-> "catch"]

UINext ==
  \/ \E pos \in NextClicks : Click(pos)
  \/ NewGame
  \/ UndoMove
  \/ \E i \in 1 .. MaxPending : InitializeGameResponds(i)
  \/ \E i \in 1 .. MaxPending : NewGameResponds(i)
  \/ \E i \in 1 .. MaxPending : SyncResponds(i)

UISpec == Init /\ [][UINext]_vars

\* ------------------------------------------------------- notions of chess

\* The piece on from attacks square in the sense of the rules of chess: it
\* could capture a piece standing there. A pawn attacks the two squares
\* diagonally in front of it, and not the square it can advance to.
attacksInChess(board, from, square) ==
  LET piece == board[from.row][from.col]
      rowDiff == square.row - from.row
      colDiff == square.col - from.col
      straight == (rowDiff = 0) # (colDiff = 0)
      diagonal == Abs(rowDiff) = Abs(colDiff) /\ rowDiff # 0
  IN CASE piece.type = "pawn" ->
            rowDiff = (IF piece.color = "white" THEN -1 ELSE 1) /\ Abs(colDiff) = 1
       [] piece.type = "knight" -> {Abs(rowDiff), Abs(colDiff)} = {1, 2}
       [] piece.type = "bishop" -> diagonal /\ isPathClear(board, from, square)
       [] piece.type = "rook" -> straight /\ isPathClear(board, from, square)
       [] piece.type = "queen" -> (straight \/ diagonal) /\ isPathClear(board, from, square)
       [] piece.type = "king" ->
            Abs(rowDiff) <= 1 /\ Abs(colDiff) <= 1 /\ (rowDiff # 0 \/ colDiff # 0)
       [] OTHER -> FALSE

attackedInChess(board, square, byColor) ==
  \E from \in Squares :
    board[from.row][from.col].color = byColor /\ attacksInChess(board, from, square)

kingSquares(board, color) ==
  {pos \in Squares : board[pos.row][pos.col] = Piece("king", color)}

\* The targets of a Position[] as a set.
Targets(moves) == {moves[i] : i \in 1 .. Len(moves)}

\* The Move record of the last accepted call, and its mover.
lastMove == gameState.moveHistory[Len(gameState.moveHistory)]

lastCall == played[Len(played)]

mover == input.currentPlayer

\* A state of the game: the initial one, or one an accepted call returned.
\* (After a rejected call the caller holds the state it held before.)
isGameState == result # "null"

rightNames == {"whiteKingSide", "whiteQueenSide", "blackKingSide", "blackQueenSide"}

\* ------------------------------------------------------------------ claims

\* C1: in the state an accepted makeMove returns, the king of the side that
\* just moved is not attacked by the opponent.
C1_MoverKingNotAttacked ==
  result = "state" =>
    \A king \in kingSquares(gameState.board, mover) :
      ~attackedInChess(gameState.board, king, Opponent(mover))

\* The call must be rejected: from is empty, holds a piece of the side not
\* to move, or to is not among the possible moves.
mustReject(state, call) ==
  LET piece == state.board[call.from.row][call.from.col]
  IN \/ piece = NoPiece
     \/ piece.color # state.currentPlayer
     \/ call.to \notin Targets(getPossibleMoves(state.board, call.from, state))

\* C2: a call that must be rejected returns null, and a call that returns
\* null leaves every field of its input state as it was.
C2_RejectedAndUnchanged ==
  result # "none" =>
    /\ mustReject(inputView, lastCall) => result = "null"
    /\ result = "null" => gameState = input /\ View(input, heap) = inputView

\* A call with a piece of the side to move on from and a to that is not a
\* possible move was rejected.
C2_Witness ==
  /\ result = "null"
  /\ inputView.board[lastCall.from.row][lastCall.from.col].color = inputView.currentPlayer
  /\ lastCall.to # lastCall.from

\* C3: after an accepted call the input state holds what it held before the
\* call, both capturedPieces arrays included.
C3_InputNeverChanges ==
  result = "state" => View(input, heap) = inputView

\* C4 as claimed: every target getPossibleMoves returns, for any square
\* from, is accepted by makeMove.
C4_EveryTargetAccepted ==
  isGameState =>
    \A from \in Squares :
      \A to \in Targets(getPossibleMoves(gameState.board, from, gameState)) :
        makeMove(gameState, from, to) # NullState

\* C4 as amended: every target getPossibleMoves returns for a square that
\* holds a piece of the side to move is accepted by makeMove (makeMove
\* returns null exactly when isRejected holds).
C4_OwnTargetAccepted ==
  isGameState =>
    \A from \in Squares :
      gameState.board[from.row][from.col].color = gameState.currentPlayer =>
        \A to \in Targets(getPossibleMoves(gameState.board, from, gameState)) :
          ~isRejected(gameState, from, to)

\* The side to move was in check, and a call with one of the possible moves
\* of one of its pieces was accepted.
C4_Witness ==
  /\ result = "state"
  /\ input.status = "check"
  /\ lastCall.to \in Targets(getPossibleMoves(input.board, lastCall.from, input))

\* The four castlings: the king's row, the files it crosses and reaches, and
\* the files between king and rook.
castlings ==
  { [color |-> "white", right |-> "whiteKingSide", row |-> 7, cross |-> 5, to |-> 6,
     corner |-> 7, between |-> {5, 6}],
    [color |-> "white", right |-> "whiteQueenSide", row |-> 7, cross |-> 3, to |-> 2,
     corner |-> 0, between |-> {1, 2, 3}],
    [color |-> "black", right |-> "blackKingSide", row |-> 0, cross |-> 5, to |-> 6,
     corner |-> 7, between |-> {5, 6}],
    [color |-> "black", right |-> "blackQueenSide", row |-> 0, cross |-> 3, to |-> 2,
     corner |-> 0, between |-> {1, 2, 3}] }

\* C5: a castling target is among the possible moves of a king only if the
\* right is set, the squares between king and rook are empty, and the king's
\* square, the square it crosses and its destination are not attacked.
C5_CastlingOnlyWhenSafe ==
  isGameState =>
    \A c \in castlings :
      ( /\ gameState.board[c.row][4] = Piece("king", c.color)
        /\ Pos(c.row, c.to) \in
             Targets(getPossibleMoves(gameState.board, Pos(c.row, 4), gameState)) )
      => /\ gameState.castlingRights[c.right]
         /\ \A col \in c.between : gameState.board[c.row][col] = NoPiece
         /\ \A col \in {4, c.cross, c.to} :
              ~attackedInChess(gameState.board, Pos(c.row, col), Opponent(c.color))

\* C6: after an accepted castling the king is on its destination, a rook of
\* the mover is on the square the king crossed, the rook's corner is empty
\* and no piece of the opponent has moved.
C6_CastlingRelocatesRook ==
  ( /\ result = "state"
    /\ lastMove.piece.type = "king"
    /\ Abs(lastMove.to.col - lastMove.from.col) = 2 )
  => LET row == lastMove.from.row
         kingSide == lastMove.to.col > lastMove.from.col
     IN /\ gameState.board[row][lastMove.to.col] = Piece("king", mover)
        /\ gameState.board[row][IF kingSide THEN 5 ELSE 3] = Piece("rook", mover)
        /\ gameState.board[row][IF kingSide THEN 7 ELSE 0] = NoPiece
        /\ \A pos \in Squares :
             (\/ input.board[pos.row][pos.col].color = Opponent(mover)
              \/ gameState.board[pos.row][pos.col].color = Opponent(mover))
             => gameState.board[pos.row][pos.col] = input.board[pos.row][pos.col]

\* C7: a castling right that is false stays false in every later state.
C7_RightsNeverReturn ==
  [][\A right \in rightNames :
       ~gameState.castlingRights[right] => ~gameState'.castlingRights[right]]_vars

\* A call was accepted in a state in which a right was already cleared.
C7_Witness ==
  /\ result = "state"
  /\ \E right \in rightNames : ~input.castlingRights[right]

\* C8: an accepted move clears a right exactly when the king of its colour
\* moves or a rook of its colour moves from the right's home corner.
C8_RightsClearedExactly ==
  result = "state" =>
    \A c \in castlings :
      LET cleared ==
            /\ lastMove.piece.color = c.color
            /\ \/ lastMove.piece.type = "king"
               \/ lastMove.piece.type = "rook" /\ lastMove.from = Pos(c.row, c.corner)
      IN gameState.castlingRights[c.right] = (input.castlingRights[c.right] /\ ~cleared)

isDoublePush(move) ==
  move.piece.type = "pawn" /\ Abs(move.to.row - move.from.row) = 2

\* The square a double push skips.
skipped(move) == Pos((move.from.row + move.to.row) \div 2, move.from.col)

\* C9: after an accepted move enPassantTarget is the square midway between
\* from and to if a pawn advanced two ranks, and none otherwise.
C9_EnPassantTargetRecomputed ==
  result = "state" =>
    gameState.enPassantTarget =
      (IF isDoublePush(lastMove) THEN skipped(lastMove) ELSE NoPosition)

\* The move after a double push was no double push, and the target is gone.
C9_Witness ==
  /\ result = "state"
  /\ input.enPassantTarget # NoPosition
  /\ gameState.enPassantTarget = NoPosition

\* C10: after a double push every pawn of the opponent beside the pushed
\* pawn has the skipped square among its possible moves; and a capture onto
\* the skipped square moves the capturing pawn there, empties the square of
\* the pushed pawn and leaves every other square as it was.
C10_EnPassantCapture ==
  result = "state" =>
    /\ isDoublePush(lastMove) =>
         \A col \in {lastMove.to.col - 1, lastMove.to.col + 1} \cap Cols :
           gameState.board[lastMove.to.row][col] = Piece("pawn", gameState.currentPlayer)
           => skipped(lastMove) \in
                Targets(getPossibleMoves(gameState.board, Pos(lastMove.to.row, col), gameState))
    /\ (lastMove.piece.type = "pawn" /\ lastMove.to = input.enPassantTarget) =>
         gameState.board =
           [[[input.board EXCEPT ![lastMove.from.row][lastMove.from.col] = NoPiece]
                EXCEPT ![lastMove.from.row][lastMove.to.col] = NoPiece]
                EXCEPT ![lastMove.to.row][lastMove.to.col] = lastMove.piece]

\* C11: an accepted move that brings a pawn to row 0 (white) or row 7
\* (black) leaves a queen of the pawn's colour on the destination square; and
\* no state of the game has a pawn on row 0 or on row 7.
C11_PromotionToQueen ==
  /\ ( /\ result = "state"
        /\ lastMove.piece.type = "pawn"
        /\ lastMove.to.row = (IF lastMove.piece.color = "white" THEN 0 ELSE 7) )
     => gameState.board[lastMove.to.row][lastMove.to.col]
          = Piece("queen", lastMove.piece.color)
  /\ \A row \in {0, 7} : \A col \in Cols : gameState.board[row][col].type # "pawn"

\* A black pawn has moved to row 7.
C11_Witness ==
  /\ result = "state"
  /\ lastMove.piece = Piece("pawn", "black")
  /\ lastMove.to.row = 7

\* The pieces of color on the board.
piecesOf(board, color) == {pos \in Squares : board[pos.row][pos.col].color = color}

\* The last accepted move took a piece of the opponent off the board.
removedEnemyPiece ==
  Cardinality(piecesOf(gameState.board, Opponent(mover)))
    < Cardinality(piecesOf(input.board, Opponent(mover)))

\* C12: after an accepted move halfMoveClock is 0 if the move took a piece
\* of the opponent off the board or moved a pawn, and one more than before
\* otherwise.
C12_HalfMoveClock ==
  result = "state" =>
    gameState.halfMoveClock =
      (IF removedEnemyPiece \/ lastMove.piece.type = "pawn"
       THEN 0 ELSE input.halfMoveClock + 1)

\* A piece other than a pawn captured while the clock was running.
C12_Witness ==
  /\ result = "state"
  /\ lastMove.piece.type # "pawn"
  /\ removedEnemyPiece
  /\ input.halfMoveClock > 0
  /\ gameState.halfMoveClock = 0

\* C13: a state that makeMove returns with halfMoveClock at 50 or more has
\* status draw.
C13_FiftyMovesDraw ==
  (result = "state" /\ gameState.halfMoveClock >= 50) => gameState.status = "draw"

\* The legal moves of the side to move: the (from, to) pairs that
\* getPossibleMoves gives for the squares that hold one of its pieces.
legalMoves(state) ==
  UNION {{[from |-> from, to |-> to] :
            to \in Targets(getPossibleMoves(state.board, from, state))} :
         from \in piecesOf(state.board, state.currentPlayer)}

\* The king of the side to move is attacked, by the rules of chess.
kingAttacked(state) ==
  \E king \in kingSquares(state.board, state.currentPlayer) :
    attackedInChess(state.board, king, Opponent(state.currentPlayer))

\* C14: in a state that makeMove returns, status is checkmate exactly when
\* the side to move has no legal move and its king is attacked, and stalemate
\* exactly when it has no legal move and its king is not attacked; and after
\* f3, e5, g4, Qh4 from the initial position status is checkmate with white
\* to move.
C14_CheckmateAndStalemate ==
  result = "state" =>
    /\ gameState.status = "checkmate"
         <=> (legalMoves(gameState) = {} /\ kingAttacked(gameState))
    /\ gameState.status = "stalemate"
         <=> (legalMoves(gameState) = {} /\ ~kingAttacked(gameState))
    /\ played = FoolsMateGame
         => gameState.status = "checkmate" /\ gameState.currentPlayer = "white"

\* Fool's mate has been played.
C14_Witness ==
  /\ played = FoolsMateGame
  /\ result = "state"
  /\ legalMoves(gameState) = {}
  /\ kingAttacked(gameState)

\* The status of a state by the rules of the specification, in their order.
classifyStatus(state) ==
  LET pieces == piecesOnBoard(state.board)
  IN IF legalMoves(state) = {}
     THEN (IF kingAttacked(state) THEN "checkmate" ELSE "stalemate")
     ELSE IF kingAttacked(state) THEN "check"
     ELSE IF state.halfMoveClock >= 50 THEN "draw"
     ELSE IF Cardinality(pieces) <= 3
             /\ \A pos \in pieces :
                  state.board[pos.row][pos.col].type \in {"king", "knight", "bishop"}
          THEN "draw"
     ELSE "active"

\* C15: in every state, the initial one included, the stored status is the
\* status classified from the state's board, side to move and half-move
\* clock.
C15_StatusIsDerived == isGameState => gameState.status = classifyStatus(gameState)

\* A capture has left two kings and a knight, and the side to move is not
\* in check and has a legal move.
C15_Witness ==
  /\ result = "state"
  /\ Cardinality(piecesOnBoard(gameState.board)) = 3
  /\ gameState.halfMoveClock = 0
  /\ ~kingAttacked(gameState)
  /\ legalMoves(gameState) # {}
  /\ gameState.status = "draw"

\* The (from, to) pairs that getPossibleMoves gives for the pieces of color.
movesOfColor(state, color) ==
  UNION {{[from |-> from, to |-> to] :
            to \in Targets(getPossibleMoves(state.board, from, state))} :
         from \in piecesOf(state.board, color)}

\* The moves of moves that start from a piece of the given type.
movesOfType(state, moves, type) ==
  {move \in moves : state.board[move.from.row][move.from.col].type = type}

\* A move seen from the other side of the board.
mirrored(move) ==
  [from |-> Pos(7 - move.from.row, move.from.col), to |-> Pos(7 - move.to.row, move.to.col)]

\* C16: in the initial state the pieces of white have 20 possible moves, 16
\* of pawns and 4 of knights, and the pieces of black have the same moves
\* mirrored across the board.
C16_InitialMoves ==
  played = <<>> =>
    LET white == movesOfColor(gameState, "white")
        black == movesOfColor(gameState, "black")
    IN /\ Cardinality(white) = 20
       /\ Cardinality(movesOfType(gameState, white, "pawn")) = 16
       /\ Cardinality(movesOfType(gameState, white, "knight")) = 4
       /\ Cardinality(black) = 20
       /\ Cardinality(movesOfType(gameState, black, "pawn")) = 16
       /\ Cardinality(movesOfType(gameState, black, "knight")) = 4
       /\ black = {mirrored(move) : move \in white}

\* The initial state, where the knight on g1 can go to f3 and the pawn on e7
\* to e5.
C16_Witness ==
  /\ played = <<>>
  /\ Call("g", 1, "f", 3) \in movesOfColor(gameState, "white")
  /\ Call("e", 7, "e", 5) \in movesOfColor(gameState, "black")

\* The letter of a file and the digit of a rank, as chess writes them.
fileLetter ==
  [col \in Cols |->
     CASE col = 0 -> "a" [] col = 1 -> "b" [] col = 2 -> "c" [] col = 3 -> "d"
       [] col = 4 -> "e" [] col = 5 -> "f" [] col = 6 -> "g" [] OTHER -> "h"]

rankDigit ==
  [rank \in 1 .. 8 |->
     CASE rank = 1 -> "1" [] rank = 2 -> "2" [] rank = 3 -> "3" [] rank = 4 -> "4"
       [] rank = 5 -> "5" [] rank = 6 -> "6" [] rank = 7 -> "7" [] OTHER -> "8"]

\* C17: positionToAlgebraic writes a square of the board as the letter a..h
\* of its column 0..7 followed by the digit 8..1 of its row 0..7, and
\* algebraicToPosition reads the square back from it.
C17_AlgebraicRoundTrip ==
  /\ algebraic # <<>> =>
       algebraic = <<fileLetter[position.col], rankDigit[8 - position.row]>>
  /\ parsed # NullState => parsed = position

\* h1, the last square of the board, was written as "h1" and read back.
C17_Witness ==
  /\ position = Pos(7, 7)
  /\ algebraic = <<"h", "1">>
  /\ parsed # NullState

\* A flag of a Move is set: the field is there and it is true.
flagSet(move, name) == name \in DOMAIN move /\ move[name] = TRUE

\* C18: in the Move that an accepted call appends, isCheckmate is set exactly
\* when the status of the returned state is checkmate, and isCheck exactly
\* when it is check or checkmate.
C18_CheckFlags ==
  result = "state" =>
    /\ flagSet(lastMove, "isCheckmate") <=> gameState.status = "checkmate"
    /\ flagSet(lastMove, "isCheck") <=> gameState.status \in {"check", "checkmate"}

\* The destination of a move as chess writes it.
destination(move) == fileLetter[move.to.col] \o rankDigit[8 - move.to.row]

\* The last accepted move was a castling, or a capture en passant: a pawn
\* took a piece off the board and moved to an empty square.
wasCastling ==
  lastMove.piece.type = "king" /\ Abs(lastMove.to.col - lastMove.from.col) = 2

wasEnPassant ==
  /\ lastMove.piece.type = "pawn"
  /\ removedEnemyPiece
  /\ input.board[lastMove.to.row][lastMove.to.col] = NoPiece

\* C19: the notation of an accepted castling is "O-O" towards column 7 and
\* "O-O-O" towards column 0; the notation of any other accepted move that
\* took a piece of the opponent off the board has "x" right before the
\* destination, begins with the file of origin if a pawn captured, and ends
\* with " e.p." if the capture was en passant.
C19_CaptureNotation ==
  result = "state" =>
    IF wasCastling
    THEN lastMove.notation =
           (IF lastMove.to.col > lastMove.from.col THEN "O-O" ELSE "O-O-O")
    ELSE removedEnemyPiece =>
           LET before == IF lastMove.piece.type = "pawn"
                         THEN {fileLetter[lastMove.from.col]}
                         ELSE {"", "R", "N", "B", "Q", "K"}
               after == IF wasEnPassant THEN {" e.p."} ELSE {"", "+", "#"}
           IN \E prefix \in before : \E suffix \in after :
                lastMove.notation = prefix \o "x" \o destination(lastMove) \o suffix

typeNames == {"pawn", "rook", "knight", "bishop", "queen", "king"}

countOf(board, piece) ==
  Cardinality({pos \in Squares : board[pos.row][pos.col] = piece})

\* The pieces of the opponent that the last accepted move took off the board.
removedPieces ==
  {piece \in {Piece(type, Opponent(mover)) : type \in typeNames} :
     countOf(gameState.board, piece) < countOf(input.board, piece)}

\* The two ledgers as they are now.
ledgers == View(gameState, heap).capturedPieces

\* C20: an accepted move that took a piece off the board has appended that
\* piece to the ledger of the piece's colour and left the other ledger as it
\* was, any other call has left both as they were; and for each colour the
\* pieces on the board and the pieces in the ledger are 16 together.
C20_LedgerConservation ==
  /\ result = "state" =>
       /\ ledgers[mover] = inputView.capturedPieces[mover]
       /\ IF removedPieces = {}
          THEN ledgers[Opponent(mover)] = inputView.capturedPieces[Opponent(mover)]
          ELSE \E piece \in removedPieces :
                 /\ removedPieces = {piece}
                 /\ ledgers[Opponent(mover)] =
                      Append(inputView.capturedPieces[Opponent(mover)], piece)
  /\ result = "null" => ledgers = inputView.capturedPieces
  /\ \A color \in {"white", "black"} :
       Cardinality(piecesOf(gameState.board, color)) + Len(ledgers[color]) = 16

\* A pawn was captured en passant and is the last piece of its ledger.
C20_Witness ==
  /\ result = "state"
  /\ wasEnPassant
  /\ Len(ledgers[Opponent(mover)]) > 0
  /\ ledgers[Opponent(mover)][Len(ledgers[Opponent(mover)])] = Piece("pawn", Opponent(mover))

\* C21: a call of makeMove and the same call made again on the same state
\* return states that are equal in every field, the two capturedPieces arrays
\* included.
C21_SameCallSameResult ==
  repeated # NullState => repeated.second = repeated.first

\* C22: every state of the game has exactly one white king and exactly one
\* black king on the board.
C22_OneKingEach ==
  \A color \in {"white", "black"} :
    Cardinality(kingSquares(gameState.board, color)) = 1

\* C23: on a board without a king of some colour, isInCheck is false for
\* that colour, and getPossibleMoves drops none of the moves of a piece of
\* that colour.
C23_NoKingNoCheck ==
  isGameState =>
    \A color \in {"white", "black"} :
      kingSquares(gameState.board, color) = {} =>
        /\ ~isInCheck(gameState.board, color)
        /\ \A from \in piecesOf(gameState.board, color) :
             getPossibleMoves(gameState.board, from, gameState)
               = unfilteredMoves(gameState.board, from, gameState)

\* Every call of makeMove on the state of the game is rejected.
rejectsEveryCall ==
  \A call \in AllCalls : isRejected(gameState, call.from, call.to)

\* C25 as claimed: in a state of the game whose status is checkmate,
\* stalemate or draw, makeMove rejects every (from, to).
C25_TerminalAbsorbing ==
  (isGameState /\ gameState.status \in {"checkmate", "stalemate", "draw"})
    => rejectsEveryCall

\* C25 as amended: in a state of the game whose status is checkmate or
\* stalemate, makeMove rejects every (from, to).
C25_MateAbsorbing ==
  (isGameState /\ gameState.status \in {"checkmate", "stalemate"})
    => rejectsEveryCall

\* A call that moves a piece of the mated side was made and rejected.
C25_Witness ==
  /\ result = "null"
  /\ input.status = "checkmate"
  /\ input.board[lastCall.from.row][lastCall.from.col].color = input.currentPlayer
  /\ lastCall.to # lastCall.from

\* C27: with n the number of accepted moves, moveHistory has n moves, white
\* is to move exactly when n is even, fullMoveNumber is 1 + n \div 2, and the
\* i-th move of moveHistory is a move of a white piece exactly when i is odd.
C27_MoveCounters ==
  /\ Len(gameState.moveHistory) = accepted
  /\ (gameState.currentPlayer = "white") <=> (accepted % 2 = 0)
  /\ gameState.fullMoveNumber = 1 + accepted \div 2
  /\ \A i \in 1 .. Len(gameState.moveHistory) :
       (gameState.moveHistory[i].piece.color = "white") <=> (i % 2 = 1)

\* Black has moved at least twice, and some call has been rejected.
C27_Witness ==
  /\ accepted >= 4
  /\ Len(played) > accepted
  /\ gameState.fullMoveNumber >= 3

\* C28: for every occupied square from, every target that getPossibleMoves
\* returns is on the board, is not from, holds no piece of the colour of the
\* piece on from, and is returned once; and a target of a rook, bishop or
\* queen lies on one of its lines with only empty squares between.
C28_TargetsWellFormed ==
  isGameState =>
    \A from \in piecesOnBoard(gameState.board) :
      LET board == gameState.board
          piece == board[from.row][from.col]
          moves == getPossibleMoves(board, from, gameState)
      IN \A i \in 1 .. Len(moves) :
           /\ moves[i].row \in Rows /\ moves[i].col \in Cols
           /\ moves[i] # from
           /\ board[moves[i].row][moves[i].col].color # piece.color
           /\ \A j \in 1 .. Len(moves) : moves[j] = moves[i] => j = i
           /\ piece.type \in {"rook", "bishop", "queen"}
                => attacksInChess(board, from, moves[i])

\* A queen has a capture among its targets, and a rook has no target at all.
C28_Witness ==
  /\ isGameState
  /\ \E from \in piecesOnBoard(gameState.board) :
       /\ gameState.board[from.row][from.col].type = "queen"
       /\ \E to \in Targets(getPossibleMoves(gameState.board, from, gameState)) :
            gameState.board[to.row][to.col] # NoPiece
  /\ \E from \in piecesOnBoard(gameState.board) :
       /\ gameState.board[from.row][from.col].type = "rook"
       /\ getPossibleMoves(gameState.board, from, gameState) = <<>>

\* A move record of a king that moved two columns.
castled(move) ==
  move.piece.type = "king" /\ Abs(move.to.col - move.from.col) = 2

\* C29: two moves of the game by pieces of different kinds, neither a pawn
\* move nor a castling, to the same destination and both captures or both
\* not, have different notations.
C29_PrefixNamesKind ==
  \A i, j \in 1 .. Len(gameState.moveHistory) :
    LET first == gameState.moveHistory[i]
        second == gameState.moveHistory[j]
    IN ( /\ first.piece.type # "pawn" /\ second.piece.type # "pawn"
         /\ first.piece.type # second.piece.type
         /\ ~castled(first) /\ ~castled(second)
         /\ first.to = second.to
         /\ (first.capturedPiece = NoPiece) <=> (second.capturedPiece = NoPiece) )
       => first.notation # second.notation

\* C24: a response to the move POST of syncWithBackend leaves the game, the
\* selection and the game id as they are, and a failed one only sets
\* isOnline to false and connectionError to a message; a click that makeMove
\* accepts makes gameState the state makeMove returns; and such a click
\* sends a POST only if isOnline is true when it is made.
C24_SyncFailureKeepsGame ==
  [][ /\ event'.handler = "syncWithBackend" =>
           /\ UNCHANGED <<gameState, heap, selectedSquare, validMoves, gameId>>
           /\ IF event'.branch = "catch"
              THEN ~isOnline' /\ connectionError' # "null"
              ELSE UNCHANGED <<isOnline, connectionError>>
      /\ event' = [handler |-> "handleSquareClick", branch |-> "move"] =>
           /\ \E i \in 1 .. Len(validMoves) :
                gameState' = makeMove(gameState, selectedSquare, validMoves[i])
           /\ requests' # requests => isOnline
    ]_vars

\* C26: when the status of gameState is checkmate, stalemate or draw, a
\* click on a square leaves gameState, selectedSquare and validMoves as
\* they are, and gameState changes only by handleNewGame, called for New
\* Game or from handleUndoMove, to the initial state with no selection.
C26_GameOverUntilNewGame ==
  [][ gameState.status \in {"checkmate", "stalemate", "draw"} =>
        /\ event'.handler = "handleSquareClick" =>
             UNCHANGED <<gameState, heap, selectedSquare, validMoves>>
        /\ gameState' # gameState =>
             /\ event'.handler \in {"handleNewGame", "handleUndoMove"}
             /\ event'.branch = "new game"
             /\ View(gameState', heap') = View(createInitialGameState(1, 2), << <<>>, <<>> >>)
             /\ selectedSquare' = NoPosition
             /\ validMoves' = <<>>
    ]_vars

\* A square has been clicked in a stalemate.
C26_Witness ==
  /\ gameState.status = "stalemate"
  /\ event = [handler |-> "handleSquareClick", branch |-> "game over"]

====
